---------------------------- MODULE Spec2Model ----------------------------
(***************************************************************************)
(* Model of s2rdd.py, the OpenAPI-to-Robot-Framework-DataDriver generator. *)
(*                                                                         *)
(* One run of transform_openapi_to_robot is a sequence of stages; each     *)
(* stage is one action.  Text whose characters the program inspects        *)
(* (property names, HTTP methods, response keys,                           *)
(* paths, the DataDriver argument string) is a sequence of character       *)
(* codes; text the program only copies (operation ids, summaries, tags,    *)
(* template contents) is a TLA+ string.                                    *)
(***************************************************************************)
EXTENDS Integers, Sequences, FiniteSets, TLC

(***************************************************************************)
(* Bounds of the model.                                                    *)
(***************************************************************************)
\* largest number of operations in an input description
MaxOps == 2

\* the largest number of parts of a path template drawn for the Robot file
MaxParts == 4

(***************************************************************************)
(* Python values.                                                          *)
(***************************************************************************)
None == [none |-> TRUE]
Some(x) == [none |-> FALSE, v |-> x]
PyStr(s) == [t |-> "str", v |-> s]
PyInt(n) == [t |-> "int", v |-> n]
PyList(l) == [t |-> "list", v |-> l]

\* truth value of an optional list or dict ("if properties:", "if required:")
Truthy(x) == ~x.none /\ Len(x.v) > 0

\* truth value of a str or list value ("if tags:")
TruthyVal(x) == Len(x.v) > 0

(***************************************************************************)
(* Text as character codes.                                                *)
(***************************************************************************)
\* str.lower on ASCII text
Lower(s) == [i \in 1..Len(s) |-> IF s[i] >= 65 /\ s[i] <= 90 THEN s[i] + 32 ELSE s[i]]

\* str.upper on ASCII text
Upper(s) == [i \in 1..Len(s) |-> IF s[i] >= 97 /\ s[i] <= 122 THEN s[i] - 32 ELSE s[i]]

\* Python's "<" on str: lexicographic by code point, a proper prefix is smaller
RECURSIVE StrLess(_, _)
StrLess(a, b) ==
    IF Len(b) = 0 THEN FALSE
    ELSE IF Len(a) = 0 THEN TRUE
    ELSE IF a[1] < b[1] THEN TRUE
    ELSE IF a[1] > b[1] THEN FALSE
    ELSE StrLess(Tail(a), Tail(b))

IsDigits(s) == Len(s) > 0 /\ \A i \in 1..Len(s) : s[i] >= 48 /\ s[i] <= 57

RECURSIVE DigitsValue(_)
DigitsValue(s) ==
    IF Len(s) = 0 THEN 0
    ELSE 10 * DigitsValue(SubSeq(s, 1, Len(s) - 1)) + (s[Len(s)] - 48)

IntOrEmptyKeepingText(s) == IF IsDigits(s) THEN PyInt(DigitsValue(s)) ELSE PyStr(s)

\* "try: int(key) except ValueError: ''" for keys that are plain decimal
\* digits or contain a non-digit letter
IntOrEmpty(s) == IF IsDigits(s) THEN PyInt(DigitsValue(s)) ELSE PyStr("")

\* "${" + variable + "}"
DollarBraces(variable) == <<36, 123>> \o variable \o <<125>>

(***************************************************************************)
(* sorted(list, key=str.lower): a stable sort.                             *)
(***************************************************************************)
SortKeyIdentity(s) == s

SortKey(s) == Lower(s)

\* x goes before the first element whose key is greater than x's key
RECURSIVE InsertByKey(_, _)
InsertByKey(s, x) ==
    IF s = <<>> THEN <<x>>
    ELSE IF StrLess(SortKey(x), SortKey(Head(s))) THEN <<x>> \o s
    ELSE <<Head(s)>> \o InsertByKey(Tail(s), x)

RECURSIVE SortedByKey(_)
SortedByKey(l) ==
    IF l = <<>> THEN <<>>
    ELSE InsertByKey(SortedByKey(SubSeq(l, 1, Len(l) - 1)), l[Len(l)])

\* list(varset): the elements of a set of str in the set's iteration order,
\* which depends on the per-process string hash seed: any order
ListOfSet(S) ==
    {f \in [1..Cardinality(S) -> S] : \A i, j \in 1..Cardinality(S) : i # j => f[i] # f[j]}

Range(f) == {f[i] : i \in DOMAIN f}

(***************************************************************************)
(* The input descriptions.                                                 *)
(***************************************************************************)
\* property names: "Id", "id", "age", "Zip"
NameIdUpper == <<73, 100>>
NameIdLower == <<105, 100>>
NameAge == <<97, 103, 101>>
NameZip == <<90, 105, 112>>

\* response keys: "200", "404", "default"
Key200 == <<50, 48, 48>>
Key404 == <<52, 48, 52>>
KeyDefault == <<100, 101, 102, 97, 117, 108, 116>>

\* HTTP methods as they appear as keys of a path item: "get", "post", "put"
MethodGet == <<103, 101, 116>>
MethodPost == <<112, 111, 115, 116>>
MethodPut == <<112, 117, 116>>

\* A PropertySpec: the value of properties[name]
PropPlain(name) == [name |-> name, enum |-> None, example |-> None]
PropEnum(name) == [name |-> name, enum |-> Some(<<"a", "b">>), example |-> None]
PropExample(name) == [name |-> name, enum |-> None, example |-> Some("ex")]

\* requestBody.content with one application/json entry
JsonBody(required, properties) ==
    Some([media |-> "application/json",
          schema |-> Some([required |-> required, properties |-> properties]),
          example |-> None])

\* an operation with tags, without request body
OpList ==
    [operationId |-> Some("listPets"), tags |-> Some(<<"pet">>), summary |-> Some("List"),
     description |-> None, requestBody |-> None, responses |-> Some(<<Key200, KeyDefault>>)]

\* a request body with one required and one optional property; the
\* description is: Add a "pet"
OpAdd ==
    [operationId |-> Some("addPet"), tags |-> Some(<<"pet", "store">>), summary |-> Some("Add"),
     description |-> Some(<<65, 100, 100, 32, 97, 32, 34, 112, 101, 116, 34>>),
     requestBody |-> JsonBody(Some(<<NameAge>>), Some(<<PropPlain(NameZip), PropExample(NameAge)>>)),
     responses |-> Some(<<Key404, Key200>>)]

\* property names that differ only in letter case, no tags, a non-integer first response key
OpUpdate ==
    [operationId |-> Some("updatePet"), tags |-> None, summary |-> None,
     description |-> None,
     requestBody |-> JsonBody(Some(<<NameIdUpper>>), Some(<<PropEnum(NameIdLower), PropPlain(NameIdUpper)>>)),
     responses |-> Some(<<KeyDefault>>)]

\* properties without a required list, no responses
OpPatch ==
    [operationId |-> Some("patchPet"), tags |-> Some(<<>>), summary |-> Some("Patch"),
     description |-> None,
     requestBody |-> JsonBody(None, Some(<<PropPlain(NameIdLower), PropPlain(NameAge)>>)),
     responses |-> None]

\* a request body of another media type, an empty responses map; the
\* description is: pet's file
OpUpload ==
    [operationId |-> Some("uploadFile"), tags |-> Some(<<"pet">>), summary |-> Some("Upload"),
     description |-> Some(<<112, 101, 116, 39, 115, 32, 102, 105, 108, 101>>),
     requestBody |-> Some([media |-> "application/octet-stream", schema |-> None, example |-> None]),
     responses |-> Some(<<>>)]

\* an operation without operationId
OpAnonymous ==
    [operationId |-> None, tags |-> Some(<<"pet">>), summary |-> Some("Anonymous"),
     description |-> None,
     requestBody |-> JsonBody(Some(<<>>), Some(<<PropPlain(NameZip)>>)),
     responses |-> Some(<<Key200>>)]

\* a request body whose schema has an empty properties mapping
OpEmptyBody ==
    [operationId |-> Some("pingPet"), tags |-> Some(<<"pet">>), summary |-> Some("Ping"),
     description |-> None, requestBody |-> JsonBody(None, Some(<<>>)),
     responses |-> Some(<<Key200>>)]

\* a summary that is the text of a placeholder of the keyword templates
OpTokenSummary ==
    [operationId |-> Some("showPet"), tags |-> Some(<<"pet">>),
     summary |-> Some("REPLACE_API_PATH_REPLACE"),
     description |-> None, requestBody |-> None, responses |-> Some(<<Key200>>)]

Operations == {OpList, OpAdd, OpUpdate, OpPatch, OpUpload, OpAnonymous}

\* paths: "/pets", "/pets/{petId}", "/store"
PathPets == <<47, 112, 101, 116, 115>>
PathPetsPetId == <<47, 112, 101, 116, 115, 47, 123, 112, 101, 116, 73, 100, 125>>
PathStore == <<47, 115, 116, 111, 114, 101>>

\* the i-th (path, method) pair in the iteration order of
\* parser.specification["paths"]; the pairs are distinct, as dict keys are
PathOf(i) == IF i = 1 THEN PathPets ELSE IF i <= 4 THEN PathPetsPetId ELSE PathStore

MethodOf(i) == <<MethodPost, MethodGet, MethodPut>>[((i - 1) % 3) + 1]

\* the descriptions: up to MaxOps operations, walked in this order
Documents ==
    UNION {[1..n -> Operations] : n \in 0..MaxOps}


(***************************************************************************)
(* parse_openapi_spec: the walk over paths and operations.                 *)
(***************************************************************************)
DictSetByOperationId(d, key, value) ==
    IF \E i \in 1..Len(d) : d[i].key[1] = key[1]
    THEN [i \in 1..Len(d) |-> IF d[i].key[1] = key[1] THEN [key |-> key, val |-> value] ELSE d[i]]
    ELSE Append(d, [key |-> key, val |-> value])

\* _service_dictionary[key] = value: a dict keeps the position of a key it
\* already holds and appends a new one
DictSet(d, key, value) ==
    IF \E i \in 1..Len(d) : d[i].key = key
    THEN [i \in 1..Len(d) |-> IF d[i].key = key THEN [key |-> key, val |-> value] ELSE d[i]]
    ELSE Append(d, [key |-> key, val |-> value])

\* the names of a properties dict, in its insertion order
PropNames(properties) == [i \in 1..Len(properties) |-> properties[i].name]

\* the locals of the walk before the first operation: no record, an empty
\* varset, expected_status_code not yet bound, nothing raised
WalkStart == [dict |-> <<>>, varset |-> {}, status |-> None, exc |-> "none"]

\* the body of the inner loop for an operation that has an operationId
WalkRecord(st, path, operation, op) ==
    LET tags == IF ~op.tags.none THEN PyList(op.tags.v) ELSE PyStr("")
        summary == IF ~op.summary.none THEN op.summary.v ELSE ""
        description == IF ~op.description.none THEN op.description.v ELSE <<>>
        json == ~op.requestBody.none /\ op.requestBody.v.media = "application/json"
        schema == json /\ ~op.requestBody.v.schema.none
        required == IF schema THEN op.requestBody.v.schema.v.required ELSE None
        properties == IF schema THEN op.requestBody.v.schema.v.properties ELSE None
        example == IF json THEN op.requestBody.v.example ELSE None
        \* assigned only under "responses" present and non-empty; otherwise
        \* the local keeps what an earlier iteration left in it
        status == IF ~op.responses.none /\ Len(op.responses.v) > 0
                  THEN Some(IntOrEmpty(op.responses.v[1]))
                  ELSE st.status
        key == <<op.operationId.v, operation, path>>
    IN  IF status.none
        THEN [st EXCEPT !.exc = "UnboundLocalError"]
        ELSE [dict |-> DictSet(st.dict, key,
                               [properties |-> properties, required |-> required,
                                example |-> example, tags |-> tags, summary |-> summary,
                                description |-> description,
                                expected_status_code |-> status.v]),
              varset |-> IF Truthy(properties)
                         THEN st.varset \cup Range(PropNames(properties.v))
                         ELSE st.varset,
              status |-> status,
              exc |-> "none"]

WalkOpSkippingAnonymous(st, path, operation, op) ==
    IF op.operationId.none
    THEN st
    ELSE WalkRecord(st, path, operation, op)

\* the body of the inner loop: an operation without operationId raises
WalkOp(st, path, operation, op) ==
    IF op.operationId.none
    THEN [st EXCEPT !.exc = "ValueError"]
    ELSE WalkRecord(st, path, operation, op)

\* the two nested loops over the first n operations; an exception ends them
RECURSIVE Walk(_, _)
Walk(d, n) ==
    IF n = 0 THEN WalkStart
    ELSE LET st == Walk(d, n - 1)
         IN  IF st.exc # "none" THEN st ELSE WalkOp(st, PathOf(n), MethodOf(n), d[n])


(***************************************************************************)
(* check_and_create_data_directory and read_template_files.                *)
(***************************************************************************)
\* what the output directory name refers to when the run starts: a
\* directory, nothing (mkdir then succeeds or fails), or something that is
\* not a directory
DirectoryStates == {"directory", "missing", "missing_no_mkdir", "not_a_directory"}

CheckAndCreateDataDirectory(state) == state \in {"directory", "missing"}

\* the five templates in the order read_template_files reads them
TemplateNames == <<"includes", "header", "keyword_body", "keyword_no_body", "footer">>

MandatoryTemplatesWithoutIncludes == {"header", "keyword_body", "keyword_no_body"}

\* the templates whose failed read makes read_template_files return False
MandatoryTemplates == {"includes", "header", "keyword_body", "keyword_no_body"}

\* read_template_file_from_disk: (success, file_content)
ReadTemplateFileFromDisk(readable, name) ==
    IF readable[name] THEN Some(name) ELSE None

\* the reads read_template_files attempts, in order: it returns at the first
\* failed read of a mandatory template
RECURSIVE TemplateReads(_, _)
TemplateReads(readable, n) ==
    IF n = 0 THEN <<>>
    ELSE LET before == TemplateReads(readable, n - 1)
         IN  IF \E i \in 1..Len(before) : ~before[i].ok /\ before[i].file \in MandatoryTemplates
             THEN before
             ELSE Append(before, [file |-> TemplateNames[n], ok |-> readable[TemplateNames[n]]])

\* read_template_files: success and the five strings (all None on failure)
ReadTemplateFiles(readable) ==
    LET success == \A name \in MandatoryTemplates : readable[name]
    IN  [success |-> success,
         reads |-> TemplateReads(readable, Len(TemplateNames)),
         strings |-> [name \in Range(TemplateNames) |->
                        IF success THEN ReadTemplateFileFromDisk(readable, name) ELSE None]]

(***************************************************************************)
(* write_excel_header and write_excel_test_case_data.                      *)
(***************************************************************************)
start_column == 6

FixedHeader ==
    <<"*** Test Case ***", "[Documentation]", "[Tags]", "${API_CALL}", "${API_OPERATION}",
      "${EXPECTED_STATUS_CODE}">>

\* later writes to a cell replace earlier ones
Overlay(f, g) == [k \in DOMAIN f \cup DOMAIN g |-> IF k \in DOMAIN g THEN g[k] ELSE f[k]]

\* the column of the i-th variable in row 0
HeaderColumn(i) == start_column + (i - 1)

\* write_excel_header: the cells of row 0 and maxcol
WriteExcelHeader(all_service_variables) ==
    LET fixed == [rc \in {0} \X (0..5) |->
                    [content |-> FixedHeader[rc[2] + 1], fmt |-> "bold_test_case"]]
        vars == [rc \in {<<0, HeaderColumn(i)>> : i \in 1..Len(all_service_variables)} |->
                    LET i == CHOOSE i \in 1..Len(all_service_variables) : HeaderColumn(i) = rc[2]
                    IN  [content |-> DollarBraces(all_service_variables[i]),
                         fmt |-> "bold_test_variables"]]
    IN  [cells |-> Overlay(fixed, vars),
         maxcol |-> start_column + Len(all_service_variables)]

\* all_service_variables.index(prop), or -1 on ValueError
IndexOrMinusOne(all_service_variables, prop) ==
    IF \E i \in 1..Len(all_service_variables) : all_service_variables[i] = prop
    THEN (CHOOSE i \in 1..Len(all_service_variables) :
            /\ all_service_variables[i] = prop
            /\ \A j \in 1..(i - 1) : all_service_variables[j] # prop) - 1
    ELSE -1

\* ",".join(tags)
RECURSIVE JoinComma(_)
JoinComma(tags) ==
    IF Len(tags) = 0 THEN ""
    ELSE IF Len(tags) = 1 THEN tags[1]
    ELSE tags[1] \o "," \o JoinComma(Tail(tags))

\* the cell format of a property found in all_service_variables
VariableFormatRequiredIfAny(required, prop) ==
    IF Truthy(required) THEN "required_variable" ELSE "optional_variable"

VariableFormat(required, prop) ==
    IF Truthy(required) /\ prop \in Range(required.v)
    THEN "required_variable"
    ELSE "optional_variable"

\* the content of a property's cell
VariableContent(spec, add_example) ==
    IF add_example /\ ~spec.example.none THEN spec.example.v ELSE ""

\* the cells of one test case's row
RowCells(row, key, val, all_service_variables, add_example) ==
    LET tags_csv_string == IF TruthyVal(val.tags) THEN JoinComma(val.tags.v) ELSE ""
        fixed == (<<row, 0>> :> [content |-> key[1], fmt |-> "test_case"])
              @@ (<<row, 1>> :> [content |-> val.summary, fmt |-> "test_case"])
              @@ (<<row, 2>> :> [content |-> tags_csv_string, fmt |-> "test_case"])
              @@ (<<row, 3>> :> [content |-> key[1], fmt |-> "test_case"])
              @@ (<<row, 4>> :> [content |-> Upper(key[2]), fmt |-> "test_case"])
              @@ (<<row, 5>> :> [content |-> val.expected_status_code, fmt |-> "test_case"])
        props == IF Truthy(val.properties) THEN val.properties.v ELSE <<>>
        found == {i \in 1..Len(props) :
                    IndexOrMinusOne(all_service_variables, props[i].name) # -1}
        column(i) == IndexOrMinusOne(all_service_variables, props[i].name) + start_column
        variables == [rc \in {<<row, column(i)>> : i \in found} |->
                        LET i == CHOOSE i \in found : column(i) = rc[2]
                        IN  [content |-> VariableContent(props[i], add_example),
                             fmt |-> VariableFormat(val.required, props[i].name)]]
    IN  Overlay(fixed, variables)

\* the data validation rules of one test case's row
RowValidations(row, val, all_service_variables) ==
    LET props == IF Truthy(val.properties) THEN val.properties.v ELSE <<>>
    IN  {[row |-> row,
          col |-> IndexOrMinusOne(all_service_variables, props[i].name) + start_column,
          value |-> props[i].enum.v] :
            i \in {i \in 1..Len(props) :
                     /\ IndexOrMinusOne(all_service_variables, props[i].name) # -1
                     /\ Truthy(props[i].enum)}}

\* write_excel_test_case_data: the cells of rows 1.., the validations, maxrow
WriteExcelTestCaseData(all_service_variables, test_cases, add_example) ==
    LET maxrow == Len(test_cases)
        maxcol == start_column + Len(all_service_variables)
        background == [rc \in (1..maxrow) \X (start_column..(maxcol - 1)) |->
                         [content |-> "", fmt |-> "test_variables"]]
        row(i) == RowCells(i, test_cases[i].key, test_cases[i].val,
                           all_service_variables, add_example)
        rows == [rc \in UNION {DOMAIN row(i) : i \in 1..maxrow} |-> row(rc[1])[rc]]
    IN  [cells |-> Overlay(background, rows),
         validations |-> UNION {RowValidations(i, test_cases[i].val, all_service_variables) :
                                  i \in 1..maxrow},
         maxrow |-> maxrow]


(***************************************************************************)
(* write_robot_framework_includes_file.                                    *)
(***************************************************************************)
\* "BASE_URL_NOT_FOUND_AND_NEEDS_TO_BE_SET_MANUALLY"
BaseUrlNotFound ==
    <<66, 65, 83, 69, 95, 85, 82, 76, 95, 78, 79, 84, 95, 70, 79, 85, 78, 68, 95, 65, 78, 68, 95, 78, 69, 69, 68, 83, 95, 84, 79, 95, 66, 69, 95, 83, 69, 84, 95, 77, 65, 78, 85, 65, 76, 76, 89>>

\* "https://api"
HttpsApi == <<104, 116, 116, 112, 115, 58, 47, 47, 97, 112, 105>>

\* the positions of "/" in s
Slashes(s) == {i \in 1..Len(s) : s[i] = 47}

SearchBaseUrlOneSegment(url) ==
    LET starts == {i \in 1..(Len(url) - Len(HttpsApi) + 1) :
                     SubSeq(url, i, i + Len(HttpsApi) - 1) = HttpsApi}
    IN  IF starts = {} THEN None
        ELSE LET first == CHOOSE i \in starts : \A j \in starts : i <= j
                 after == {i \in Slashes(url) : i >= first + Len(HttpsApi)}
             IN  IF after = {} THEN None
                 ELSE Some(SubSeq(url, CHOOSE i \in after : \A j \in after : j <= i, Len(url)))

\* re.search(r"https:\/\/api.*(\/.*\/.*)", url): group 1 of the match, or None.
\* The pattern matches at the leftmost "https://api" when two "/" follow it,
\* and the greedy ".*" leaves the group the text from the last but one "/".
SearchBaseUrl(url) ==
    LET starts == {i \in 1..(Len(url) - Len(HttpsApi) + 1) :
                     SubSeq(url, i, i + Len(HttpsApi) - 1) = HttpsApi}
    IN  IF starts = {} THEN None
        ELSE LET first == CHOOSE i \in starts : \A j \in starts : i <= j
                 after == {i \in Slashes(url) : i >= first + Len(HttpsApi)}
             IN  IF Cardinality(after) < 2 THEN None
                 ELSE LET last == CHOOSE i \in after : \A j \in after : j <= i
                          from == CHOOSE i \in after \ {last} : \A j \in after \ {last} : j <= i
                      IN  Some(SubSeq(url, from, Len(url)))

\* the loop over servers: every matching entry assigns base_url
RECURSIVE BaseUrl(_)
BaseUrl(server_list) ==
    IF Len(server_list) = 0 THEN BaseUrlNotFound
    ELSE LET matches == SearchBaseUrl(server_list[Len(server_list)])
         IN  IF ~matches.none THEN matches.v
             ELSE BaseUrl(SubSeq(server_list, 1, Len(server_list) - 1))

\* the text written to includes.resource: the template with its base URL
\* and file name placeholders replaced
IncludesContent(server_list, template_string) ==
    [template |-> template_string.v, base_url |-> BaseUrl(server_list)]

(***************************************************************************)
(* write_robot_framework_test_case_file.                                   *)
(***************************************************************************)
\* "${API_CALL}  ${API_OPERATION}  ${EXPECTED_STATUS_CODE}"
FixedArguments ==
    <<36, 123, 65, 80, 73, 95, 67, 65, 76, 76, 125, 32, 32, 36, 123, 65, 80, 73, 95, 79, 80, 69, 82, 65, 84, 73, 79, 78, 125, 32, 32, 36, 123, 69, 88, 80, 69, 67, 84, 69, 68, 95, 83, 84, 65, 84, 85, 83, 95, 67, 79, 68, 69, 125>>

\* my_arguments_string: the fixed arguments, then "  ${var}" per variable
RECURSIVE MyArgumentsString(_)
MyArgumentsString(all_service_variables) ==
    IF Len(all_service_variables) = 0 THEN FixedArguments
    ELSE MyArgumentsString(SubSeq(all_service_variables, 1, Len(all_service_variables) - 1))
         \o <<32, 32>> \o DollarBraces(all_service_variables[Len(all_service_variables)])

\* re.finditer(r"\{(.*?)\}", endpoint): group 1 of every match from position
\* from on, in order; a match is a "{" and the nearest "}" after it
RECURSIVE BraceGroups(_, _)
BraceGroups(endpoint, from) ==
    LET opens == {i \in from..Len(endpoint) :
                    endpoint[i] = 123 /\ \E j \in (i + 1)..Len(endpoint) : endpoint[j] = 125}
    IN  IF opens = {} THEN <<>>
        ELSE LET open == CHOOSE i \in opens : \A j \in opens : i <= j
                 close == CHOOSE j \in (open + 1)..Len(endpoint) :
                            /\ endpoint[j] = 125
                            /\ \A k \in (open + 1)..(j - 1) : endpoint[k] # 125
             IN  <<SubSeq(endpoint, open + 1, close - 1)>> \o BraceGroups(endpoint, close + 1)

\* "    Set Test Variable  ${"
SetTestVariable ==
    <<32, 32, 32, 32, 83, 101, 116, 32, 84, 101, 115, 116, 32, 86, 97, 114, 105, 97, 98, 108, 101, 32, 32, 36, 123>>

\* url_parameters: "\n", then one "Set Test Variable" line per match
RECURSIVE SetTestVariableLines(_)
SetTestVariableLines(groups) ==
    IF Len(groups) = 0 THEN <<>>
    ELSE SetTestVariable \o groups[1] \o <<125, 32, 32>> \o groups[1] \o <<10>>
         \o SetTestVariableLines(Tail(groups))

UrlParametersFirstOnly(endpoint) ==
    IF 123 \in Range(endpoint)
    THEN LET groups == BraceGroups(endpoint, 1)
         IN  IF Len(groups) = 0 THEN <<10>>
             ELSE <<10>> \o SetTestVariableLines(<<groups[1]>>)
    ELSE <<>>

UrlParameters(endpoint) ==
    IF 123 \in Range(endpoint)
    THEN <<10>> \o SetTestVariableLines(BraceGroups(endpoint, 1))
    ELSE <<>>

\* test_case_endpoint.replace("{", "${")
RECURSIVE ReplaceBraces(_)
ReplaceBraces(endpoint) ==
    IF Len(endpoint) = 0 THEN <<>>
    ELSE (IF endpoint[1] = 123 THEN <<36, 123>> ELSE <<endpoint[1]>>)
         \o ReplaceBraces(Tail(endpoint))

SchemaGeneratorInVariableOrder(properties) ==
    LET names == SortedByKey([i \in 1..Len(properties) |-> properties[i].name])
    IN  [i \in 1..Len(properties) |->
            [variable_name |-> names[i], variable_value |-> DollarBraces(names[i])]]

\* one "Add Variable To Dict If Value Is Not None" statement per property,
\* in the order of the properties dict
SchemaGenerator(properties) ==
    [i \in 1..Len(properties) |->
        [variable_name |-> properties[i].name,
         variable_value |-> DollarBraces(properties[i].name)]]

\* A template text is a sequence of pieces.  A piece of kind "token" is an
\* occurrence of the text of a placeholder in the string; every other piece
\* is text in which no placeholder occurs.
Token(name) == [kind |-> "token", text |-> name]

\* the placeholders of a keyword template, in the order in which the writer
\* replaces them
KeywordTokens ==
    <<"REPLACE_OPERATION_REPLACE", "REPLACE_OPERATIONID_REPLACE",
      "REPLACE_DOCUMENTATION_REPLACE", "REPLACE_DATA_DRIVER_ARGUMENTS_REPLACE",
      "REPLACE_URL_PARAMETERS_REPLACE", "REPLACE_SCHEMA_GENERATOR_STRING_REPLACE",
      "REPLACE_HTTP_OPERATION_REPLACE", "REPLACE_API_PATH_REPLACE">>

\* a str of the service dictionary as pieces: a value that is the text of a
\* placeholder is an occurrence of that placeholder, like any other
StrPieces(s) ==
    IF s = "" THEN <<>>
    ELSE IF \E i \in 1..Len(KeywordTokens) : KeywordTokens[i] = s THEN <<Token(s)>>
    ELSE <<[kind |-> "str", text |-> s]>>

\* a str kept as character codes, as pieces
CharPieces(chars) ==
    IF Len(chars) = 0 THEN <<>> ELSE <<[kind |-> "chars", text |-> chars]>>

\* the payload statements of a body, as pieces
RECURSIVE StatementPieces(_)
StatementPieces(statements) ==
    IF Len(statements) = 0 THEN <<>>
    ELSE <<[kind |-> "statement", text |-> statements[1]]>>
         \o StatementPieces(Tail(statements))

\* str.replace(token, value): every occurrence of the token in the text as it
\* is now, whether it came from the template or from a value put in before
RECURSIVE Replace(_, _, _)
Replace(text, token, value) ==
    IF Len(text) = 0 THEN <<>>
    ELSE (IF text[1].kind = "token" /\ text[1].text = token
          THEN value ELSE <<text[1]>>)
         \o Replace(Tail(text), token, value)

\* the content of the two keyword templates: each names the operation and
\* the operation id, then documents, declares its arguments, sets the url
\* parameters, builds the body (body template only) and sends the request
KeywordTemplateText(name) ==
    LET head == <<Token("REPLACE_OPERATION_REPLACE"), Token("REPLACE_OPERATIONID_REPLACE"),
                  [kind |-> "str", text |-> "[Documentation]"],
                  Token("REPLACE_DOCUMENTATION_REPLACE"),
                  [kind |-> "str", text |-> "[Arguments]"],
                  Token("REPLACE_DATA_DRIVER_ARGUMENTS_REPLACE"),
                  Token("REPLACE_URL_PARAMETERS_REPLACE")>>
        body == <<Token("REPLACE_SCHEMA_GENERATOR_STRING_REPLACE")>>
        send == <<Token("REPLACE_HTTP_OPERATION_REPLACE"), Token("REPLACE_API_PATH_REPLACE")>>
    IN  IF name = "keyword_body" THEN head \o body \o send ELSE head \o send

\* the text of one keyword block: the replace calls of the writer, one after
\* the other, each on the result of the one before
RenderKeyword(template_text, block, properties) ==
    LET t1 == Replace(template_text, "REPLACE_OPERATION_REPLACE", CharPieces(block.operation))
        t2 == Replace(t1, "REPLACE_OPERATIONID_REPLACE", StrPieces(block.operationid))
        t3 == Replace(t2, "REPLACE_DOCUMENTATION_REPLACE", StrPieces(block.documentation))
        t4 == Replace(t3, "REPLACE_DATA_DRIVER_ARGUMENTS_REPLACE", CharPieces(block.arguments))
        t5 == Replace(t4, "REPLACE_URL_PARAMETERS_REPLACE", CharPieces(block.url_parameters))
        t6 == IF Truthy(properties)
              THEN Replace(t5, "REPLACE_SCHEMA_GENERATOR_STRING_REPLACE",
                           StatementPieces(block.schema_generator))
              ELSE t5
        t7 == Replace(t6, "REPLACE_HTTP_OPERATION_REPLACE", CharPieces(block.http_operation))
    IN  Replace(t7, "REPLACE_API_PATH_REPLACE", CharPieces(block.api_path))

\* the values put into one keyword block
KeywordValues(key, val, my_arguments_string, templates) ==
    [template |-> IF Truthy(val.properties)
                  THEN templates["keyword_body"].v
                  ELSE templates["keyword_no_body"].v,
     operation |-> Upper(key[2]),
     operationid |-> key[1],
     documentation |-> val.summary,
     arguments |-> my_arguments_string,
     url_parameters |-> UrlParameters(key[3]),
     schema_generator |-> IF Truthy(val.properties)
                          THEN SchemaGenerator(val.properties.v)
                          ELSE <<>>,
     http_operation |-> Upper(key[2]),
     api_path |-> IF 123 \in Range(key[3]) THEN ReplaceBraces(key[3]) ELSE key[3]]

\* the keyword block of one test case: the template chosen, the value put in
\* place of each of its placeholders, and the text that results
KeywordBlock(key, val, my_arguments_string, templates) ==
    LET block == KeywordValues(key, val, my_arguments_string, templates)
    IN  [template |-> block.template,
         operation |-> block.operation,
         operationid |-> block.operationid,
         documentation |-> block.documentation,
         arguments |-> block.arguments,
         url_parameters |-> block.url_parameters,
         schema_generator |-> block.schema_generator,
         http_operation |-> block.http_operation,
         api_path |-> block.api_path,
         text |-> RenderKeyword(KeywordTemplateText(block.template), block, val.properties)]

RobotContentLastBlockFirst(all_service_variables, test_cases, templates) ==
    [header |-> [template |-> templates["header"].v,
                 arguments |-> MyArgumentsString(all_service_variables)],
     blocks |-> [i \in 1..Len(test_cases) |->
                    KeywordBlock(test_cases[Len(test_cases) + 1 - i].key,
                                 test_cases[Len(test_cases) + 1 - i].val,
                                 MyArgumentsString(all_service_variables), templates)],
     footer |-> templates["footer"]]

\* what is written to the Robot file once it is open: the header with the
\* argument string, one block per test case, the footer if there is one
RobotContent(all_service_variables, test_cases, templates) ==
    [header |-> [template |-> templates["header"].v,
                 arguments |-> MyArgumentsString(all_service_variables)],
     blocks |-> [i \in 1..Len(test_cases) |->
                    KeywordBlock(test_cases[i].key, test_cases[i].val,
                                 MyArgumentsString(all_service_variables), templates)],
     footer |-> templates["footer"]]


(***************************************************************************)
(* create_jira_tickets.                                                    *)
(***************************************************************************)
\* the key Jira returns for the ticket of the i-th test case, and for the
\* Test Execution ticket
TicketKey(i) == <<"XRAY-1", "XRAY-2", "XRAY-3", "XRAY-4">>[i]

ExecutionKey == "XRAY-EXEC"

\* the two request body templates, in the order they are read
JiraTemplateNames == <<"jira_test", "jira_test_execution">>

\* the reads create_jira_tickets attempts: it returns at the first failure
JiraTemplateReads(readable) ==
    IF readable["jira_test"]
    THEN <<[file |-> "jira_test", ok |-> TRUE],
           [file |-> "jira_test_execution", ok |-> readable["jira_test_execution"]]>>
    ELSE <<[file |-> "jira_test", ok |-> FALSE]>>

\* description.replace('"', '\\"').replace("'", "\\'")
RECURSIVE EscapeQuotes(_)
EscapeQuotes(description) ==
    IF Len(description) = 0 THEN <<>>
    ELSE (IF description[1] \in {34, 39}
          THEN <<92, description[1]>> ELSE <<description[1]>>)
         \o EscapeQuotes(Tail(description))

\* the codes of 0-9, a-f, A-F
HexDigits == (48..57) \cup (97..102) \cup (65..70)

\* whether json accepts the text as the inside of a string: no control
\* character, no quote that would end the string before its end, and a
\* backslash only before one of " \ / b f n r t or before u and four hex
\* digits
RECURSIVE JsonStringContent(_)
JsonStringContent(text) ==
    IF Len(text) = 0 THEN TRUE
    ELSE IF text[1] < 32 \/ text[1] = 34 THEN FALSE
    ELSE IF text[1] # 92 THEN JsonStringContent(Tail(text))
    ELSE IF Len(text) < 2 THEN FALSE
    ELSE IF text[2] \in {34, 92, 47, 98, 102, 110, 114, 116}
         THEN JsonStringContent(SubSeq(text, 3, Len(text)))
    ELSE IF text[2] = 117 /\ Len(text) >= 6 /\ \A k \in 3..6 : text[k] \in HexDigits
         THEN JsonStringContent(SubSeq(text, 7, Len(text)))
    ELSE FALSE

\* json.loads(test_string) returns for the Test ticket template with the
\* escaped description in place; otherwise it raises JSONDecodeError.  The
\* template is a JSON object that has the description placeholder inside a
\* string; the operation ids put in next to it are letters only.
JsonLoads(description) == JsonStringContent(EscapeQuotes(description))

\* the locals before the loop over the test cases
MirrorStart(test_cases) ==
    [test_cases |-> test_cases, jira_test_tickets |-> <<>>, posts |-> <<>>,
     success |-> TRUE, exc |-> "none"]

MirrorTestCaseChangingSummary(st, i, created) ==
    LET posted == [st EXCEPT !.posts = Append(@, [kind |-> "test", test_case |-> i,
                                                  success |-> created]),
                             !.success = created]
        tags == st.test_cases[i].val.tags
    IN  IF ~JsonLoads(st.test_cases[i].val.description)
        THEN [st EXCEPT !.exc = "JSONDecodeError"]
        ELSE IF ~created THEN posted
        ELSE IF tags.t = "list"
        THEN [posted EXCEPT !.jira_test_tickets = Append(@, TicketKey(i)),
                            !.test_cases[i].val.tags = PyList(Append(tags.v, TicketKey(i))),
                            !.test_cases[i].val.summary = TicketKey(i)]
        ELSE [posted EXCEPT !.jira_test_tickets = Append(@, TicketKey(i)),
                            !.exc = "AttributeError"]

\* one iteration of the loop: the Test ticket of the i-th test case;
\* created says whether create_jira_item returned success, if it is called
MirrorTestCase(st, i, created) ==
    LET posted == [st EXCEPT !.posts = Append(@, [kind |-> "test", test_case |-> i,
                                                  success |-> created]),
                             !.success = created]
        tags == st.test_cases[i].val.tags
    \* json.loads is called before the request is made
    IN  IF ~JsonLoads(st.test_cases[i].val.description)
        THEN [st EXCEPT !.exc = "JSONDecodeError"]
        ELSE IF ~created THEN posted
        ELSE IF tags.t = "list"
        THEN [posted EXCEPT !.jira_test_tickets = Append(@, TicketKey(i)),
                            !.test_cases[i].val.tags = PyList(Append(tags.v, TicketKey(i)))]
        \* tags is the str "" of an operation without tags: no append method
        ELSE [posted EXCEPT !.jira_test_tickets = Append(@, TicketKey(i)),
                            !.exc = "AttributeError"]

RECURSIVE MirrorLoop(_, _, _)
MirrorLoop(test_cases, responses, n) ==
    IF n = 0 THEN MirrorStart(test_cases)
    ELSE LET st == MirrorLoop(test_cases, responses, n - 1)
         IN  IF st.exc # "none" THEN st ELSE MirrorTestCase(st, n, responses[n])

MirrorExecutionLinkingAlways(st, execution_created, linked) ==
    IF st.exc # "none" THEN st
    ELSE IF Len(st.jira_test_tickets) > 0
    THEN LET execution == [kind |-> "execution", success |-> execution_created]
             link == [kind |-> "link", execution |-> ExecutionKey,
                      add |-> st.jira_test_tickets, success |-> linked]
         IN  [st EXCEPT !.posts = st.posts \o <<execution, link>>,
                        !.success = execution_created /\ linked]
    ELSE [st EXCEPT !.success = FALSE]

\* the Test Execution ticket and the link request after the loop, and the
\* value returned
MirrorExecution(st, execution_created, linked) ==
    IF st.exc # "none" THEN st
    ELSE IF Len(st.jira_test_tickets) > 0
    THEN LET execution == [kind |-> "execution", success |-> execution_created]
             link == [kind |-> "link", execution |-> ExecutionKey,
                      add |-> st.jira_test_tickets, success |-> linked]
         IN  IF execution_created
             THEN [st EXCEPT !.posts = st.posts \o <<execution, link>>, !.success = linked]
             ELSE [st EXCEPT !.posts = Append(st.posts, execution), !.success = FALSE]
    ELSE [st EXCEPT !.success = FALSE]

\* create_jira_tickets: the template reads, the requests posted, the test
\* cases with their tags, and the value returned or the exception raised
CreateJiraTickets(test_cases, readable, responses, execution_created, linked) ==
    LET template_reads == JiraTemplateReads(readable)
        st == MirrorExecution(MirrorLoop(test_cases, responses, Len(test_cases)),
                              execution_created, linked)
    IN  IF \E i \in 1..Len(template_reads) : ~template_reads[i].ok
        THEN [reads |-> template_reads, posts |-> <<>>, test_cases |-> test_cases,
              success |-> FALSE, exc |-> "none"]
        ELSE [reads |-> template_reads, posts |-> st.posts, test_cases |-> st.test_cases,
              success |-> st.success, exc |-> st.exc]


(***************************************************************************)
(* transform_openapi_to_robot: the state of one run.                       *)
(***************************************************************************)
VARIABLES
    doc,                    \* input: the operations of the description, in walk order
    server_list,            \* input: the "servers" of the description
    add_example_data,       \* input: --add_example_data
    jira_access_key,        \* input: --jira_access_key, or None
    template_files,         \* input: which template files can be read
    pc,                     \* the stage the run is about to start, or "done"
    result,                 \* "running", the value returned, or the exception raised
    started,                \* the stages started so far, in order
    failed,                 \* the first stage that failed, or "none"
    reads,                  \* the template reads attempted so far, in order
    templates,              \* the five template strings
    servers,                \* parse_openapi_spec's servers
    service_dictionary,     \* parse_openapi_spec's service dictionary (test cases)
    all_service_variables,  \* parse_openapi_spec's sorted list of variables
    posts,                  \* the requests posted to Jira so far, in order
    files,                  \* the three output files: None, or what was written
    rerun                   \* what a second run on the same input wrote, or None

vars ==
    <<doc, server_list, add_example_data, jira_access_key, template_files, pc, result,
      started, failed, reads, templates, servers, service_dictionary,
      all_service_variables, posts, files, rerun>>

inputs == <<doc, server_list, add_example_data, jira_access_key, template_files>>

\* server URLs: "https://api.acme.com/v1/pets", "https://api.acme.com/v2/store",
\* "https://www.acme.com/v1"
UrlApiPets ==
    <<104, 116, 116, 112, 115, 58, 47, 47, 97, 112, 105, 46, 97, 99, 109, 101, 46, 99, 111, 109, 47, 118, 49, 47, 112, 101, 116, 115>>

UrlApiStore ==
    <<104, 116, 116, 112, 115, 58, 47, 47, 97, 112, 105, 46, 97, 99, 109, 101, 46, 99, 111, 109, 47, 118, 50, 47, 115, 116, 111, 114, 101>>

UrlWww ==
    <<104, 116, 116, 112, 115, 58, 47, 47, 119, 119, 119, 46, 97, 99, 109, 101, 46, 99, 111, 109, 47, 118, 49>>

\* "https://api.acme.com/v1"
UrlApiShort ==
    <<104, 116, 116, 112, 115, 58, 47, 47, 97, 112, 105, 46, 97, 99, 109, 101, 46, 99, 111, 109, 47, 118, 49>>

\* the "servers" of a description: absent, one URL that does not match the
\* base URL pattern (another host, or one path segment only), or two that
\* match around one that does not
ServerLists == {<<>>, <<UrlWww>>, <<UrlApiShort>>, <<UrlApiPets, UrlWww, UrlApiStore>>}

AllTemplateNames == Range(TemplateNames) \cup Range(JiraTemplateNames)

\* the template directories: complete, one file missing, or the includes
\* and the header template both missing
TemplateDirectories ==
    {[name \in AllTemplateNames |-> name \notin missing] :
        missing \in {{}} \cup {{name} : name \in AllTemplateNames} \cup {{"includes", "header"}}}

NoTemplates == [name \in Range(TemplateNames) |-> None]

NoFiles == [excel |-> None, includes |-> None, robot |-> None]

Init ==
    /\ doc \in Documents
    /\ server_list \in ServerLists
    /\ add_example_data \in BOOLEAN
    /\ jira_access_key \in {None, Some("dXNlcjphdXRo")}
    /\ template_files \in TemplateDirectories
    /\ pc = "directory"
    /\ result = "running"
    /\ started = <<>>
    /\ failed = "none"
    /\ reads = <<>>
    /\ templates = NoTemplates
    /\ servers = <<>>
    /\ service_dictionary = <<>>
    /\ all_service_variables = <<>>
    /\ posts = <<>>
    /\ files = NoFiles
    /\ rerun = None

\* the order of the passes of transform_openapi_to_robot
NextStageMirrorAfterSpreadsheet(stage) ==
    CASE stage = "directory" -> "templates"
      [] stage = "templates" -> "input_file"
      [] stage = "input_file" -> "walker"
      [] stage = "walker" -> "spreadsheet"
      [] stage = "spreadsheet" -> "ticket_mirror"
      [] stage = "ticket_mirror" -> "includes"
      [] stage = "includes" -> "script"
      [] stage = "script" -> "done"

NextStage(stage) ==
    CASE stage = "directory" -> "templates"
      [] stage = "templates" -> "input_file"
      [] stage = "input_file" -> "walker"
      [] stage = "walker" -> "ticket_mirror"
      [] stage = "ticket_mirror" -> "spreadsheet"
      [] stage = "spreadsheet" -> "includes"
      [] stage = "includes" -> "script"
      [] stage = "script" -> "done"

\* whether the orchestrator tests the success indicator a stage returns: the
\* value of write_robot_framework_test_case_file is assigned and not tested
ChecksSuccessExceptIncludes(stage) == stage \notin {"script", "includes"}

ChecksSuccessExceptTemplates(stage) == stage \notin {"script", "templates"}

ChecksSuccess(stage) == stage # "script"

\* a stage has run: it returned success (a BOOLEAN) or raised exc
StageDone(stage, success, exc) ==
    /\ started' = Append(started, stage)
    /\ failed' = IF failed = "none" /\ (~success \/ exc # "none") THEN stage ELSE failed
    /\ IF exc # "none"
       THEN pc' = "done" /\ result' = exc
       ELSE IF ChecksSuccess(stage) /\ ~success
       THEN pc' = "done" /\ result' = "False"
       ELSE /\ pc' = NextStage(stage)
            /\ result' = IF NextStage(stage) = "done" THEN "True" ELSE result

\* lines 1149-1151
CheckDirectory ==
    /\ pc = "directory"
    /\ \E state \in DirectoryStates :
          StageDone("directory", CheckAndCreateDataDirectory(state), "none")
    /\ UNCHANGED <<inputs, reads, templates, servers, service_dictionary,
                   all_service_variables, posts, files, rerun>>

\* lines 1153-1164
LoadTemplates ==
    /\ pc = "templates"
    /\ LET r == ReadTemplateFiles(template_files)
       IN  /\ reads' = reads \o r.reads
           /\ templates' = r.strings
           /\ StageDone("templates", r.success, "none")
    /\ UNCHANGED <<inputs, servers, service_dictionary, all_service_variables, posts,
                   files, rerun>>

\* lines 1168-1171
CheckInputFile ==
    /\ pc = "input_file"
    /\ \E exists \in BOOLEAN : StageDone("input_file", exists, "none")
    /\ UNCHANGED <<inputs, reads, templates, servers, service_dictionary,
                   all_service_variables, posts, files, rerun>>

\* parse_openapi_spec: parsed says whether ResolvingParser accepted the
\* file, order is the iteration order of varset
ParseOpenapiSpec(d, server_entries, parsed, order) ==
    LET st == Walk(d, Len(d))
    IN  IF ~parsed
        THEN [success |-> FALSE, exc |-> "none", servers |-> <<>>,
              service_dictionary |-> <<>>, all_service_variables |-> <<>>]
        ELSE IF st.exc # "none"
        THEN [success |-> FALSE, exc |-> st.exc, servers |-> <<>>,
              service_dictionary |-> <<>>, all_service_variables |-> <<>>]
        ELSE [success |-> TRUE, exc |-> "none", servers |-> server_entries,
              service_dictionary |-> st.dict,
              all_service_variables |-> SortedByKey(order)]

\* the orders in which the walk's varset can be iterated
VarsetOrders(d) ==
    LET st == Walk(d, Len(d))
    IN  IF st.exc # "none" THEN {<<>>} ELSE ListOfSet(st.varset)

\* lines 1173-1180
Parse ==
    /\ pc = "walker"
    /\ \E parsed \in BOOLEAN, order \in VarsetOrders(doc) :
          LET r == ParseOpenapiSpec(doc, server_list, parsed, order)
          IN  /\ servers' = r.servers
              /\ service_dictionary' = r.service_dictionary
              /\ all_service_variables' = r.all_service_variables
              /\ StageDone("walker", r.success, r.exc)
    /\ UNCHANGED <<inputs, reads, templates, posts, files, rerun>>

\* lines 1195-1208
MirrorTickets ==
    /\ pc = "ticket_mirror"
    /\ IF jira_access_key.none
       THEN /\ pc' = NextStage("ticket_mirror")
            /\ UNCHANGED <<result, started, failed, reads, service_dictionary, posts>>
       ELSE \E responses \in [1..Len(service_dictionary) -> BOOLEAN],
               execution_created \in BOOLEAN, linked \in BOOLEAN :
              LET r == CreateJiraTickets(service_dictionary, template_files, responses,
                                         execution_created, linked)
              IN  /\ reads' = reads \o r.reads
                  /\ posts' = r.posts
                  /\ service_dictionary' = r.test_cases
                  /\ StageDone("ticket_mirror", r.success, r.exc)
    /\ UNCHANGED <<inputs, templates, servers, all_service_variables, files, rerun>>

WorkbookCountingHeader(variables, test_cases, add_example) ==
    LET header == WriteExcelHeader(variables)
        data == WriteExcelTestCaseData(variables, test_cases, add_example)
    IN  [cells |-> Overlay(header.cells, data.cells),
         validations |-> data.validations,
         maxcol |-> header.maxcol,
         maxrow |-> data.maxrow + 1]

\* the workbook in memory after write_excel_header and write_excel_test_case_data
Workbook(variables, test_cases, add_example) ==
    LET header == WriteExcelHeader(variables)
        data == WriteExcelTestCaseData(variables, test_cases, add_example)
    IN  [cells |-> Overlay(header.cells, data.cells),
         validations |-> data.validations,
         maxcol |-> header.maxcol,
         maxrow |-> data.maxrow]

\* lines 1210-1242
WriteExcel ==
    /\ pc = "spreadsheet"
    /\ \E closed \in BOOLEAN :
          /\ files' = IF closed
                      THEN [files EXCEPT !.excel =
                              Some(Workbook(all_service_variables, service_dictionary,
                                            add_example_data))]
                      ELSE files
          /\ StageDone("spreadsheet", closed, "none")
    /\ UNCHANGED <<inputs, reads, templates, servers, service_dictionary,
                   all_service_variables, posts, rerun>>

\* lines 1252-1265
WriteIncludes ==
    /\ pc = "includes"
    /\ \E written \in BOOLEAN :
          /\ files' = IF written
                      THEN [files EXCEPT !.includes =
                              Some(IncludesContent(servers, templates["includes"]))]
                      ELSE files
          /\ StageDone("includes", written, "none")
    /\ UNCHANGED <<inputs, reads, templates, servers, service_dictionary,
                   all_service_variables, posts, rerun>>

\* lines 1267-1283
WriteRobot ==
    /\ pc = "script"
    /\ \E opened \in BOOLEAN :
          /\ files' = IF opened
                      THEN [files EXCEPT !.robot =
                              Some(RobotContent(all_service_variables, service_dictionary,
                                                templates))]
                      ELSE files
          /\ StageDone("script", opened, "none")
    /\ UNCHANGED <<inputs, reads, templates, servers, service_dictionary,
                   all_service_variables, posts, rerun>>

\* a second run of the program on the same description with the same
\* templates, after a first run that mirrored no tickets and wrote every
\* file: the variables it computes, the workbook and the Robot file it writes
Rerun ==
    /\ pc = "done"
    /\ result = "True"
    /\ failed = "none"
    /\ jira_access_key.none
    /\ rerun.none
    /\ \E order \in VarsetOrders(doc) :
          LET r == ParseOpenapiSpec(doc, server_list, TRUE, order)
          IN  rerun' = Some([all_service_variables |-> r.all_service_variables,
                             excel |-> Workbook(r.all_service_variables,
                                                r.service_dictionary, add_example_data),
                             robot |-> RobotContent(r.all_service_variables,
                                                    r.service_dictionary, templates)])
    /\ UNCHANGED <<inputs, pc, result, started, failed, reads, templates, servers,
                   service_dictionary, all_service_variables, posts, files>>

Next ==
    \/ CheckDirectory
    \/ LoadTemplates
    \/ CheckInputFile
    \/ Parse
    \/ MirrorTickets
    \/ WriteExcel
    \/ WriteIncludes
    \/ WriteRobot
    \/ Rerun

Spec == Init /\ [][Next]_vars


(***************************************************************************)
(* The script stage for a description with one operation at any path.      *)
(***************************************************************************)
\* the parts path templates are made of: "/pets", "/{petId}", "/{id}", and
\* a lone "{" and "}"
PathParts ==
    {<<47, 112, 101, 116, 115>>,
     <<47, 123, 112, 101, 116, 73, 100, 125>>,
     <<47, 123, 105, 100, 125>>,
     <<123>>,
     <<125>>}

RECURSIVE Concat(_)
Concat(parts) == IF Len(parts) = 0 THEN <<>> ELSE parts[1] \o Concat(Tail(parts))

\* the keys of parser.specification["paths"] drawn: up to MaxParts parts
PathTemplates ==
    {Concat(parts) : parts \in UNION {[1..n -> PathParts] : n \in 0..MaxParts}}

\* the operations drawn for it: without request body, with two properties
\* whose insertion order is not their sorted order, with no property
RenderOperations == {OpList, OpAdd, OpEmptyBody, OpTokenSummary}

\* a run about to start the script stage: every template was read, the one
\* operation of the description, found under the path drawn, was walked,
\* and the workbook and the includes file are written
RenderInit ==
    \E path \in PathTemplates, op \in RenderOperations :
        LET readable == [name \in AllTemplateNames |-> TRUE]
            st == WalkOp(WalkStart, path, MethodGet, op)
        IN  \E order \in ListOfSet(st.varset) :
              /\ doc = <<op>>
              /\ server_list = <<>>
              /\ add_example_data = FALSE
              /\ jira_access_key = None
              /\ template_files = readable
              /\ pc = "script"
              /\ result = "running"
              /\ started = <<"directory", "templates", "input_file", "walker",
                             "spreadsheet", "includes">>
              /\ failed = "none"
              /\ reads = ReadTemplateFiles(readable).reads
              /\ templates = ReadTemplateFiles(readable).strings
              /\ servers = <<>>
              /\ service_dictionary = st.dict
              /\ all_service_variables = SortedByKey(order)
              /\ posts = <<>>
              /\ files = [excel |-> Some(Workbook(SortedByKey(order), st.dict, FALSE)),
                          includes |-> Some(IncludesContent(<<>>,
                                               ReadTemplateFiles(readable).strings["includes"])),
                          robot |-> None]
              /\ rerun = None

RenderNext == WriteRobot

RenderSpec == RenderInit /\ [][RenderNext]_vars


(***************************************************************************)
(* The claims.                                                             *)
(***************************************************************************)
\* every properties key of an application/json request body schema of the
\* operations of a description
DocumentPropertyNames(d) ==
    UNION {IF /\ ~d[i].requestBody.none
              /\ d[i].requestBody.v.media = "application/json"
              /\ ~d[i].requestBody.v.schema.none
              /\ ~d[i].requestBody.v.schema.v.properties.none
           THEN {d[i].requestBody.v.schema.v.properties.v[j].name :
                   j \in 1..Len(d[i].requestBody.v.schema.v.properties.v)}
           ELSE {} : i \in 1..Len(d)}

\* the variable names of the header row of a workbook, by column from
\* start_column on: the cell contents without their "${" and "}"
HeaderVariables(workbook) ==
    [i \in 1..Cardinality({rc \in DOMAIN workbook.cells : rc[1] = 0 /\ rc[2] >= start_column}) |->
        LET content == workbook.cells[<<0, start_column + i - 1>>].content
        IN  SubSeq(content, 3, Len(content) - 1)]

\* the argument string that lists exactly these variables after the three
\* fixed arguments
RECURSIVE ArgumentsOf(_)
ArgumentsOf(variables) ==
    IF Len(variables) = 0 THEN FixedArguments
    ELSE ArgumentsOf(SubSeq(variables, 1, Len(variables) - 1))
         \o <<32, 32, 36, 123>> \o variables[Len(variables)] \o <<125>>

\* no element's lower-cased text is greater than a later element's
SortedCaseInsensitive(l) ==
    \A i, j \in 1..Len(l) : i < j => ~StrLess(Lower(l[j]), Lower(l[i]))

NoDuplicates(l) == \A i, j \in 1..Len(l) : i # j => l[i] # l[j]

\* C1: whenever the workbook and the Robot file are written, the variables
\* of the header row from column 6 on are, in the same order, the variables
\* of the argument string after its three fixed arguments, and they are the
\* properties keys of all operations, each once, in case-insensitive
\* ascending order.
C1_OrderingInvariant ==
    (~files.excel.none /\ ~files.robot.none) =>
        LET header == HeaderVariables(files.excel.v)
        IN  /\ DOMAIN files.excel.v.cells \cap ({0} \X (start_column..(start_column + Len(header) + 1)))
                 = {0} \X (start_column..(start_column + Len(header) - 1))
            /\ files.robot.v.header.arguments = ArgumentsOf(header)
            /\ Range(header) = DocumentPropertyNames(doc)
            /\ NoDuplicates(header)
            /\ SortedCaseInsensitive(header)

\* C1 witness: both files are written for a description with four
\* variables, two of which differ only in letter case.
C1_Witness ==
    /\ ~files.excel.none
    /\ ~files.robot.none
    /\ Len(all_service_variables) = 4

\* C2: a second run on the same description and templates writes the same
\* variables, workbook and Robot file as the first.
C2_Determinism ==
    ~rerun.none =>
        /\ rerun.v.all_service_variables = all_service_variables
        /\ rerun.v.excel = files.excel.v
        /\ rerun.v.robot = files.robot.v

\* C3: in the workbook, the cell of every property of every test case, at
\* the row of the test case and the column of the property's variable, has
\* the required format if the test case's required list contains the
\* property's name, and the optional format in every other case.
C3_RequiredOptionalPartition ==
    ~files.excel.none =>
        \A i \in 1..Len(service_dictionary) :
            LET val == service_dictionary[i].val
            IN  ~val.properties.none =>
                    \A j \in 1..Len(val.properties.v) :
                        LET prop == val.properties.v[j].name
                        IN  \A k \in 1..Len(all_service_variables) :
                                all_service_variables[k] = prop =>
                                    files.excel.v.cells[<<i, start_column + k - 1>>].fmt =
                                        IF ~val.required.none /\ \E r \in 1..Len(val.required.v) :
                                                                    val.required.v[r] = prop
                                        THEN "required_variable"
                                        ELSE "optional_variable"

\* C3 witness: a workbook is written whose test case has a non-empty
\* required list, a property in it and a property not in it.
C3_Witness ==
    /\ ~files.excel.none
    /\ \E i \in 1..Len(service_dictionary) :
          LET val == service_dictionary[i].val
          IN  /\ Truthy(val.properties)
              /\ Truthy(val.required)
              /\ \E j \in 1..Len(val.properties.v) :
                    val.properties.v[j].name \in Range(val.required.v)
              /\ \E j \in 1..Len(val.properties.v) :
                    val.properties.v[j].name \notin Range(val.required.v)


\* C4: for a description with an operation without operationId no output
\* file is ever written, and once the walker has run the run is over
\* without success.
C4_MissingOperationIdAborts ==
    (\E i \in 1..Len(doc) : doc[i].operationId.none) =>
        /\ files = NoFiles
        /\ "walker" \in Range(started) => (pc = "done" /\ result \notin {"True", "running"})

\* C4 witness: the walk of a valid operation followed by one without
\* operationId has ended the run.
C4_Witness ==
    /\ Len(doc) = 2
    /\ ~doc[1].operationId.none
    /\ doc[2].operationId.none
    /\ failed = "walker"
    /\ result = "ValueError"
    /\ files = NoFiles

\* C5: a run ends with a returned status, True or False, and never with an
\* exception that leaves transform_openapi_to_robot.
C5_FailureIsReturned ==
    pc = "done" => result \in {"True", "False"}

\* C6: a run returns True only if the workbook, the includes file and the
\* Robot file are all written.
C6_SuccessOnlyIfAllWritten ==
    result = "True" =>
        (~files.excel.none /\ ~files.includes.none /\ ~files.robot.none)

\* C7: once one of the stages before the script stage has failed, it is
\* the last stage started, the run is over, and its status is not success.
C7_ShortCircuit ==
    failed \in {"directory", "templates", "input_file", "walker", "ticket_mirror",
                "spreadsheet", "includes"} =>
        /\ pc = "done"
        /\ started[Len(started)] = failed
        /\ result \notin {"True", "running"}

\* C7 witness: the includes stage failed after the workbook was written;
\* the script stage was not started.
C7_Witness ==
    /\ failed = "includes"
    /\ ~files.excel.none
    /\ "script" \notin Range(started)
    /\ result = "False"

\* C8 as claimed: template loading fails exactly when the header or a
\* keyword template cannot be read.
C8_IncludesOptional ==
    "templates" \in Range(started) =>
        (failed = "templates" <=>
            \E name \in {"header", "keyword_body", "keyword_no_body"} : ~template_files[name])

\* C8 amended: template loading fails exactly when the includes, the
\* header or a keyword template cannot be read; an absent footer template
\* leaves it successful.
C8_FooterOptional ==
    "templates" \in Range(started) =>
        (failed = "templates" <=>
            \E name \in {"includes", "header", "keyword_body", "keyword_no_body"} :
                ~template_files[name])

\* C8 witness: a run without footer template has written all its files.
C8_Witness ==
    /\ ~template_files["footer"]
    /\ templates["footer"].none
    /\ result = "True"
    /\ ~files.robot.none
    /\ files.robot.v.footer.none

\* C9: if a template the run needs cannot be read, no output file is ever
\* written; and no template is read once an output file is written.
C9_TemplatesBeforeOutput ==
    /\ []((\/ \E name \in {"includes", "header", "keyword_body", "keyword_no_body"} :
                ~template_files[name]
           \/ /\ ~jira_access_key.none
              /\ \E name \in {"jira_test", "jira_test_execution"} : ~template_files[name])
          => files = NoFiles)
    /\ [][files # NoFiles => reads' = reads]_vars

\* C9 witness: a run whose keyword template cannot be read is over with no
\* output file.
C9_Witness ==
    /\ ~template_files["keyword_no_body"]
    /\ failed = "templates"
    /\ pc = "done"
    /\ files = NoFiles

IsPrefix(a, b) == Len(a) <= Len(b) /\ a = SubSeq(b, 1, Len(a))

\* C10: with mirroring requested the stages start in the order walker,
\* ticket mirror, spreadsheet, includes, script; no test case changes once
\* the spreadsheet stage has started; and the tags column of the workbook
\* and the blocks of the Robot file are those of the final test cases.
C10_MirrorBeforeRenderers ==
    /\ [](~jira_access_key.none =>
            IsPrefix(started, <<"directory", "templates", "input_file", "walker",
                                "ticket_mirror", "spreadsheet", "includes", "script">>))
    /\ [][("spreadsheet" \in Range(started) \/ "script" \in Range(started))
            => service_dictionary' = service_dictionary]_vars
    /\ [](~files.excel.none =>
            \A i \in 1..Len(service_dictionary) :
                files.excel.v.cells[<<i, 2>>].content =
                    IF Len(service_dictionary[i].val.tags.v) > 0
                    THEN JoinComma(service_dictionary[i].val.tags.v)
                    ELSE "")
    /\ [](~files.robot.none =>
            /\ Len(files.robot.v.blocks) = Len(service_dictionary)
            /\ \A i \in 1..Len(service_dictionary) :
                  files.robot.v.blocks[i].operationid = service_dictionary[i].key[1])

\* C10 witness: a run with mirroring has written the workbook and the
\* Robot file, and the tags cell of a test case ends with its ticket key.
C10_Witness ==
    /\ ~jira_access_key.none
    /\ ~files.excel.none
    /\ ~files.robot.none
    /\ \E i \in 1..Len(service_dictionary) :
          /\ \E k \in 1..Len(posts) : posts[k].kind = "test" /\ posts[k].test_case = i
                                       /\ posts[k].success
          /\ service_dictionary[i].val.tags.v = <<"pet", TicketKey(i)>>
          /\ files.excel.v.cells[<<i, 2>>].content = "pet," \o TicketKey(i)


\* the positions in posts of the requests of one kind
PostsOfKind(kind) == {k \in 1..Len(posts) : posts[k].kind = kind}

\* the keys of the Test tickets created by a sequence of requests, in the
\* order of the requests
RECURSIVE CreatedKeys(_)
CreatedKeys(p) ==
    IF Len(p) = 0 THEN <<>>
    ELSE LET last == p[Len(p)]
             before == CreatedKeys(SubSeq(p, 1, Len(p) - 1))
         IN  IF last.kind = "test" /\ last.success
             THEN Append(before, TicketKey(last.test_case))
             ELSE before

\* C11: after a ticket mirror run in which the Test ticket of every test
\* case was created, the Test Execution ticket was requested exactly once
\* and a link request lists the keys of all test cases in order; and any
\* link request lists exactly the keys of the Test tickets created.
C11_TrackerLinkage ==
    "ticket_mirror" \in Range(started) =>
        /\ (/\ Len(service_dictionary) > 0
            /\ \A i \in 1..Len(service_dictionary) :
                  \E k \in PostsOfKind("test") : posts[k].test_case = i /\ posts[k].success)
           => /\ Cardinality(PostsOfKind("execution")) = 1
              /\ \A k \in PostsOfKind("link") :
                    posts[k].add = [i \in 1..Len(service_dictionary) |-> TicketKey(i)]
        /\ \A k \in PostsOfKind("link") : posts[k].add = CreatedKeys(posts)

\* C12: after a ticket mirror run, the tags of every test case whose Test
\* ticket was created are a list that ends with the ticket's key, and the
\* mirror did not raise.
C12_TagAppended ==
    "ticket_mirror" \in Range(started) =>
        /\ result # "AttributeError"
        /\ \A k \in PostsOfKind("test") :
              posts[k].success =>
                  LET tags == service_dictionary[posts[k].test_case].val.tags
                  IN  /\ tags.t = "list"
                      /\ Len(tags.v) > 0
                      /\ tags.v[Len(tags.v)] = TicketKey(posts[k].test_case)

\* C13: a ticket mirror run that created at least one Test ticket and did
\* not raise has not failed, whatever became of its other requests.
C13_FailedSubmissionNotFatal ==
    (/\ "ticket_mirror" \in Range(started)
     /\ CreatedKeys(posts) # <<>>
     /\ result # "AttributeError")
    => failed # "ticket_mirror"

\* C14: a ticket mirror run that created no Test ticket (every request
\* made was refused, or there was no test case) has posted neither the Test
\* Execution ticket nor a link request, the mirror has reported failure so
\* that the run has ended with False, and no renderer was started nor any
\* file written.
C14_ZeroTicketsIsFailure ==
    ("ticket_mirror" \in Range(started) /\ CreatedKeys(posts) = <<>>) =>
        /\ failed = "ticket_mirror"
        /\ pc = "done"
        /\ result = "False"
        /\ PostsOfKind("execution") = {}
        /\ PostsOfKind("link") = {}
        /\ Range(started) \cap {"spreadsheet", "includes", "script"} = {}
        /\ files = NoFiles

\* C15: after a successful walk no two records of the service dictionary
\* have the same (operationId, method, path) key, and every operation
\* walked has its record under its own key, with its own summary; as paths
\* and methods are dict keys of the description, no key is met twice and
\* the last operation met with a key is the only one.
C15_IdentityUniqueness ==
    ("walker" \in Range(started) /\ failed # "walker") =>
        /\ \A i, j \in 1..Len(service_dictionary) :
              i # j => service_dictionary[i].key # service_dictionary[j].key
        /\ Len(service_dictionary) = Len(doc)
        /\ \A n \in 1..Len(doc) :
              \E i \in 1..Len(service_dictionary) :
                  /\ service_dictionary[i].key = <<doc[n].operationId.v, MethodOf(n), PathOf(n)>>
                  /\ service_dictionary[i].val.summary =
                        IF doc[n].summary.none THEN "" ELSE doc[n].summary.v

\* C15 witness: two operations are walked and each has its record under
\* its own key.
C15_Witness ==
    /\ "walker" \in Range(started)
    /\ failed # "walker"
    /\ doc = <<OpAdd, OpList>>
    /\ Len(service_dictionary) = 2
    /\ service_dictionary[1].key = <<"addPet", MethodPost, PathPets>>
    /\ service_dictionary[2].key = <<"listPets", MethodGet, PathPetsPetId>>

\* the positions of "{" and of "}" in a path
Opens(path) == {i \in 1..Len(path) : path[i] = 123}

Closes(path) == {i \in 1..Len(path) : path[i] = 125}

\* the k-th smallest of a set of numbers
Nth(S, k) == CHOOSE x \in S : Cardinality({y \in S : y < x}) = k - 1

\* the braces of the path pair up as placeholders: the k-th "{" is before
\* the k-th "}", which is before the next "{"
WellFormed(path) ==
    /\ Cardinality(Opens(path)) = Cardinality(Closes(path))
    /\ \A k \in 1..Cardinality(Opens(path)) :
          /\ Nth(Opens(path), k) < Nth(Closes(path), k)
          /\ k < Cardinality(Opens(path)) => Nth(Closes(path), k) < Nth(Opens(path), k + 1)

\* the name in the k-th placeholder
PlaceholderName(path, k) ==
    SubSeq(path, Nth(Opens(path), k) + 1, Nth(Closes(path), k) - 1)

\* "    Set Test Variable  ${name}  name" and a newline, for the first k
\* placeholders in their order
RECURSIVE InitStatements(_, _)
InitStatements(path, k) ==
    IF k = 0 THEN <<>>
    ELSE InitStatements(path, k - 1)
         \o SetTestVariable \o PlaceholderName(path, k) \o <<125, 32, 32>>
         \o PlaceholderName(path, k) \o <<10>>

\* C16: in the Robot file, the block of a test case whose path has no "{"
\* has no initialization statement and the path unchanged; the block of a
\* test case whose path has placeholders has, after a newline, one
\* statement per placeholder in their order, binding ${name} to name; and
\* the path of every block is the test case's path with "${" for every "{".
C16_PathParameterRewrite ==
    ~files.robot.none =>
        \A i \in 1..Len(service_dictionary) :
            LET path == service_dictionary[i].key[3]
                block == files.robot.v.blocks[i]
                n == Cardinality(Opens(path))
            IN  /\ n = 0 => (block.url_parameters = <<>> /\ block.api_path = path)
                /\ (n > 0 /\ WellFormed(path)) =>
                       block.url_parameters = <<10>> \o InitStatements(path, n)
                /\ Len(block.api_path) = Len(path) + n
                /\ \A j \in 1..Len(path) :
                      LET shift == Cardinality({o \in Opens(path) : o <= j})
                      IN  /\ block.api_path[j + shift] = path[j]
                          /\ path[j] = 123 => block.api_path[j + shift - 1] = 36

\* C16 witness: the Robot file is written for the path "/pets/{petId}/{id}".
C16_Witness ==
    /\ ~files.robot.none
    /\ Len(service_dictionary) = 1
    /\ service_dictionary[1].key[3] =
          <<47, 112, 101, 116, 115, 47, 123, 112, 101, 116, 73, 100, 125, 47, 123, 105, 100, 125>>
    /\ Len(files.robot.v.blocks[1].url_parameters) > 0

\* a URL has the form https://api<host>/<seg>/<seg>: "https://api"
\* somewhere in it and two "/" further on
MatchesPattern(url) ==
    \E i \in 1..Len(url) :
        /\ i + Len(HttpsApi) - 1 <= Len(url)
        /\ \A c \in 1..Len(HttpsApi) : url[i + c - 1] = HttpsApi[c]
        /\ \E j, k \in (i + Len(HttpsApi))..Len(url) : j < k /\ url[j] = 47 /\ url[k] = 47

\* C17: an includes file written for a server list with no entry of the
\* form https://api<host>/<seg>/<seg> has the text
\* BASE_URL_NOT_FOUND_AND_NEEDS_TO_BE_SET_MANUALLY as its base URL, and the
\* includes stage has not failed.
C17_ServerFallback ==
    (~files.includes.none /\ \A k \in 1..Len(servers) : ~MatchesPattern(servers[k])) =>
        /\ files.includes.v.base_url = BaseUrlNotFound
        /\ Len(files.includes.v.base_url) = 47
        /\ failed # "includes"

\* C17 witness: the includes file is written for the one server
\* "https://api.acme.com/v1", which has one path segment only; the run
\* goes on to the script stage.
C17_Witness ==
    /\ servers = <<UrlApiShort>>
    /\ ~files.includes.none
    /\ files.includes.v.base_url = BaseUrlNotFound
    /\ "script" \in Range(started)

\* C18 as claimed: the workbook's reported maxrow is the number of test
\* cases plus one and its maxcol is 6 plus the number of variables.
C18_RowsIsRecordsPlusOne ==
    ~files.excel.none =>
        /\ files.excel.v.maxrow = Len(service_dictionary) + 1
        /\ files.excel.v.maxcol = 6 + Len(all_service_variables)

\* C18 amended: the workbook's reported maxrow is the number of test cases,
\* the zero-based index of the last of the rows 0..maxrow the sheet holds,
\* and its maxcol is 6 plus the number of variables, the number of the
\* columns 0..maxcol-1 the sheet holds.
C18_ReportedDimensions ==
    ~files.excel.none =>
        /\ files.excel.v.maxrow = Len(service_dictionary)
        /\ files.excel.v.maxcol = 6 + Len(all_service_variables)
        /\ {rc[1] : rc \in DOMAIN files.excel.v.cells} = 0..Len(service_dictionary)
        /\ {rc[2] : rc \in DOMAIN files.excel.v.cells} = 0..(5 + Len(all_service_variables))

\* C18 witness: a workbook of two test cases and four variables is written.
C18_Witness ==
    /\ ~files.excel.none
    /\ Len(service_dictionary) = 2
    /\ Len(all_service_variables) = 4
    /\ files.excel.v.maxrow = 2
    /\ files.excel.v.maxcol = 10

\* C19: an includes file written for a server list with entries of the
\* form https://api<host>/<seg>/<seg> has the base URL of the first of them.
C19_FirstMatchWins ==
    (~files.includes.none /\ \E k \in 1..Len(servers) : MatchesPattern(servers[k])) =>
        LET first == CHOOSE k \in 1..Len(servers) :
                        /\ MatchesPattern(servers[k])
                        /\ \A j \in 1..(k - 1) : ~MatchesPattern(servers[j])
        IN  files.includes.v.base_url = SearchBaseUrl(servers[first]).v

\* the expected status code of a first response key "200", "404", "default"
StatusOfKey(key) ==
    CASE key = Key200 -> PyInt(200)
      [] key = Key404 -> PyInt(404)
      [] key = KeyDefault -> PyStr("")

\* C20: after a successful walk the record of every operation with a
\* non-empty responses map has as expected_status_code the first key of the
\* map as an integer, or the empty string if that key is "default".
C20_FirstResponseKey ==
    ("walker" \in Range(started) /\ failed # "walker") =>
        \A n \in 1..Len(doc) :
            (~doc[n].responses.none /\ Len(doc[n].responses.v) > 0) =>
                \E i \in 1..Len(service_dictionary) :
                    /\ service_dictionary[i].key = <<doc[n].operationId.v, MethodOf(n), PathOf(n)>>
                    /\ service_dictionary[i].val.expected_status_code =
                          StatusOfKey(doc[n].responses.v[1])

\* C20 witness: an operation whose responses are "404", "200" in this
\* order and one whose only response is "default" are walked.
C20_Witness ==
    /\ "walker" \in Range(started)
    /\ failed # "walker"
    /\ doc = <<OpAdd, OpUpdate>>
    /\ service_dictionary[1].val.expected_status_code = PyInt(404)
    /\ service_dictionary[2].val.expected_status_code = PyStr("")

\* C21: in the requests posted to Jira, every Test ticket request is before
\* the Test Execution request, which is before the link request; there is
\* a Test Execution request only if a Test ticket was created, and a link
\* request only with a Test Execution ticket created, whose key it names;
\* and no test case's ticket, no execution and no link is requested twice.
C21_SubmissionOrder ==
    /\ \A j, k \in 1..Len(posts) :
          (posts[j].kind = "test" /\ posts[k].kind \in {"execution", "link"}) => j < k
    /\ \A j, k \in 1..Len(posts) :
          (posts[j].kind = "execution" /\ posts[k].kind = "link") => j < k
    /\ PostsOfKind("execution") # {} => CreatedKeys(posts) # <<>>
    /\ \A k \in PostsOfKind("link") :
          /\ \E j \in PostsOfKind("execution") : posts[j].success
          /\ posts[k].execution = ExecutionKey
    /\ Cardinality(PostsOfKind("execution")) <= 1
    /\ Cardinality(PostsOfKind("link")) <= 1
    /\ \A j, k \in PostsOfKind("test") : j # k => posts[j].test_case # posts[k].test_case

\* C21 witness: the first of two Test ticket requests failed and was not
\* repeated, the second succeeded, then the Test Execution ticket was
\* created and the link was requested.
C21_Witness ==
    /\ Len(posts) = 4
    /\ posts[1].kind = "test" /\ ~posts[1].success
    /\ posts[2].kind = "test" /\ posts[2].success
    /\ posts[3].kind = "execution" /\ posts[3].success
    /\ posts[4].kind = "link"

\* C22: in the Robot file the block of a test case is made from the keyword
\* template with request body if the test case has a non-empty properties
\* mapping and from the one without otherwise; it has one add-to-dictionary
\* statement per property, in the order of the properties mapping, each
\* naming the property and its variable, and none without properties.
C22_BodyTemplateAndPayload ==
    ~files.robot.none =>
        \A i \in 1..Len(service_dictionary) :
            LET properties == service_dictionary[i].val.properties
                block == files.robot.v.blocks[i]
                count == IF properties.none THEN 0 ELSE Len(properties.v)
            IN  /\ block.template = IF count > 0 THEN "keyword_body" ELSE "keyword_no_body"
                /\ Len(block.schema_generator) = count
                /\ \A j \in 1..count :
                      /\ block.schema_generator[j].variable_name = properties.v[j].name
                      /\ block.schema_generator[j].variable_value =
                            <<36, 123>> \o properties.v[j].name \o <<125>>

\* C22 witness: the Robot file is written for a test case whose properties
\* are Zip, age in this order, while the variables are age, Zip.
C22_Witness ==
    /\ ~files.robot.none
    /\ all_service_variables = <<NameAge, NameZip>>
    /\ Len(files.robot.v.blocks) = 1
    /\ files.robot.v.blocks[1].template = "keyword_body"
    /\ files.robot.v.blocks[1].schema_generator[1].variable_name = NameZip
    /\ files.robot.v.blocks[1].schema_generator[2].variable_name = NameAge

\* two service dictionaries have the same keys in the same order and, under
\* each key, the same values of every field but tags
SameExceptTags(a, b) ==
    /\ Len(a) = Len(b)
    /\ \A i \in 1..Len(a) :
          /\ a[i].key = b[i].key
          /\ \A field \in {"properties", "required", "example", "summary", "description",
                           "expected_status_code"} :
                a[i].val[field] = b[i].val[field]

\* a step of the ticket mirror stage changes nothing but tags
MirrorFrame ==
    pc = "ticket_mirror" =>
        /\ SameExceptTags(service_dictionary, service_dictionary')
        /\ all_service_variables' = all_service_variables

\* a step of a renderer stage changes neither test cases nor variables
RendererFrame ==
    pc \in {"spreadsheet", "includes", "script"} =>
        /\ service_dictionary' = service_dictionary
        /\ all_service_variables' = all_service_variables

\* C23: the ticket mirror stage leaves the variables and everything in the
\* service dictionary but tags as they are; the spreadsheet, includes and
\* script stages leave the service dictionary and the variables as they are.
C23_ModelFrame ==
    /\ [][MirrorFrame]_vars
    /\ [][RendererFrame]_vars

\* C23 witness: a run that mirrored the ticket of its first test case into
\* the tags has written every file, and the test case's other fields are
\* those of the operation.
C23_Witness ==
    /\ ~jira_access_key.none
    /\ result = "True"
    /\ ~files.excel.none /\ ~files.includes.none /\ ~files.robot.none
    /\ doc[1] = OpAdd
    /\ service_dictionary[1].val.tags = PyList(<<"pet", "store", TicketKey(1)>>)
    /\ service_dictionary[1].val.summary = "Add"
    /\ service_dictionary[1].val.properties = OpAdd.requestBody.v.schema.v.properties

\* C24: the walk never ends with an unbound expected_status_code, and after
\* a successful walk the record of every operation whose responses are
\* absent or empty has the empty string as expected_status_code.
C24_StatusFromOwnResponses ==
    /\ result # "UnboundLocalError"
    /\ ("walker" \in Range(started) /\ failed # "walker") =>
          \A n \in 1..Len(doc) :
              (doc[n].responses.none \/ Len(doc[n].responses.v) = 0) =>
                  \E i \in 1..Len(service_dictionary) :
                      /\ service_dictionary[i].key =
                            <<doc[n].operationId.v, MethodOf(n), PathOf(n)>>
                      /\ service_dictionary[i].val.expected_status_code = PyStr("")

\* what the block supplies for a placeholder
SuppliedValue(token, block) ==
    IF token = "REPLACE_OPERATION_REPLACE" THEN CharPieces(block.operation)
    ELSE IF token = "REPLACE_OPERATIONID_REPLACE" THEN StrPieces(block.operationid)
    ELSE IF token = "REPLACE_DOCUMENTATION_REPLACE" THEN StrPieces(block.documentation)
    ELSE IF token = "REPLACE_DATA_DRIVER_ARGUMENTS_REPLACE" THEN CharPieces(block.arguments)
    ELSE IF token = "REPLACE_URL_PARAMETERS_REPLACE" THEN CharPieces(block.url_parameters)
    ELSE IF token = "REPLACE_SCHEMA_GENERATOR_STRING_REPLACE"
         THEN StatementPieces(block.schema_generator)
    ELSE IF token = "REPLACE_HTTP_OPERATION_REPLACE" THEN CharPieces(block.http_operation)
    ELSE CharPieces(block.api_path)

\* the template with each of its own placeholder sites filled by the value
\* supplied for it, the values themselves left as they are
RECURSIVE FilledSites(_, _)
FilledSites(template_text, block) ==
    IF Len(template_text) = 0 THEN <<>>
    ELSE (IF template_text[1].kind = "token"
          THEN SuppliedValue(template_text[1].text, block)
          ELSE <<template_text[1]>>)
         \o FilledSites(Tail(template_text), block)

\* C25: in every keyword block of a written script, each placeholder site of
\* the chosen template holds exactly the value supplied for it, also when a
\* value contains the text of another placeholder: the text of the block is
\* the template with its own sites filled and nothing else rewritten.
C25_SubstitutionNonInterfering ==
    ~files.robot.none =>
        \A i \in 1..Len(files.robot.v.blocks) :
            LET block == files.robot.v.blocks[i]
            IN  block.text = FilledSites(KeywordTemplateText(block.template), block)

\* C26: the data rows of a written workbook and the keyword blocks of a
\* written Robot file are one per record of the service dictionary and in
\* its order: row i names the operation id and the method of record i,
\* block i names its operation id, method and path, no data row lies
\* beyond the last record, and so row i and block i describe one record,
\* with or without a run of the ticket mirror before them.
C26_RowBlockAlignment ==
    LET n == Len(service_dictionary)
        key(i) == service_dictionary[i].key
    IN  /\ ~files.excel.none =>
              LET cells == files.excel.v.cells
              IN  /\ files.excel.v.maxrow = n
                  /\ \A rc \in DOMAIN cells : rc[1] \in 0..n
                  /\ \A i \in 1..n :
                        /\ {<<i, 0>>, <<i, 3>>, <<i, 4>>} \subseteq DOMAIN cells
                        /\ cells[<<i, 0>>].content = key(i)[1]
                        /\ cells[<<i, 3>>].content = key(i)[1]
                        /\ cells[<<i, 4>>].content = Upper(key(i)[2])
        /\ ~files.robot.none =>
              LET blocks == files.robot.v.blocks
              IN  /\ Len(blocks) = n
                  /\ \A i \in 1..n :
                        /\ blocks[i].operationid = key(i)[1]
                        /\ blocks[i].operation = Upper(key(i)[2])
                        /\ blocks[i].http_operation = Upper(key(i)[2])
                        /\ blocks[i].api_path = ReplaceBraces(key(i)[3])
        /\ (~files.excel.none /\ ~files.robot.none) =>
              \A i \in 1..n :
                  /\ files.excel.v.cells[<<i, 0>>].content = files.robot.v.blocks[i].operationid
                  /\ files.excel.v.cells[<<i, 4>>].content = files.robot.v.blocks[i].operation

\* a run that mirrored two different operations to tickets and then wrote
\* the workbook and the Robot file
C26_Witness ==
    /\ ~jira_access_key.none
    /\ Len(posts) >= 3
    /\ result = "True"
    /\ ~files.excel.none /\ ~files.robot.none
    /\ Len(service_dictionary) = 2
    /\ service_dictionary[1].key[1] # service_dictionary[2].key[1]
    /\ service_dictionary[1].key[2] # service_dictionary[2].key[2]
    /\ files.excel.v.cells[<<2, 0>>].content = service_dictionary[2].key[1]
    /\ files.robot.v.blocks[2].operationid = service_dictionary[2].key[1]

=============================================================================
